---- MODULE Spec2Model ----
(***************************************************************************)
(* py2slack: layered configuration resolution (auth.py and the standalone  *)
(* py2slack.py), load-time client initialization, send_slack,              *)
(* format_duration and the slack_notify wrapper (notify.py).               *)
(*                                                                         *)
(* Python values are modelled as strings; None (also "key not in dict")    *)
(* is the reserved string None below.  Durations are integers counting     *)
(* hundredths of a second.                                                 *)
(***************************************************************************)
EXTENDS Integers, Sequences, FiniteSets, TLC

VARIABLES
    sdkAvailable,     \* slack_sdk importable in this runtime
    dotenvAvailable,  \* find_spec('dotenv') is not None
    startEnviron,     \* the environment the process was started with
    environ,          \* os.environ restricted to the two SLACK_* names
    envFile,          \* the .env file: [exists, vars]
    jsonFile,         \* slack_config.json: [exists, valid, obj]
    liveness,         \* what the remote answers to auth_test at load time
    pc,               \* "start" | "auth_loaded" | "ready" | "import_error"
    CLIENT,           \* module global CLIENT: [handle, token]
    DEFAULT_CHANNEL,  \* module global DEFAULT_CHANNEL
    consulted,        \* load_slack_config has run in this process
    authTests,        \* tokens auth_test was called with, in order
    last,             \* observable record of the last call the host made
    resAuth,          \* what the module body of auth.py resolved and bound
    resStandalone,    \* what the module body of py2slack.py resolved and bound
    elapsed,          \* input of format_duration, in hundredths of a second
    formatted         \* output of format_duration

worldVars ==
    <<sdkAvailable, dotenvAvailable, startEnviron, envFile, jsonFile, liveness>>
procVars  == <<environ, pc, CLIENT, DEFAULT_CHANNEL, consulted, authTests, last>>
cfgVars   == <<resAuth, resStandalone>>
fmtVars   == <<elapsed, formatted>>
vars      == <<worldVars, procVars, cfgVars, fmtVars>>

----------------------------------------------------------------------------
(* Values *)

None == "<None>"

\* Python truthiness of an Optional[str]: `if v:`
Truthy(v) == v # None /\ v # ""

ConfigKeys == {"oauth_token", "default_channel"}

EnvName(key) ==
    IF key = "oauth_token" THEN "SLACK_OAUTH_TOKEN" ELSE "SLACK_DEFAULT_CHANNEL"

EnvNames == {EnvName(k) : k \in ConfigKeys}

\* config = {}
EmptyConfig == [k \in ConfigKeys |-> None]

\* {'oauth_token', 'default_channel'} - config.keys()
Missing(config) == {k \in ConfigKeys : config[k] = None}

\* The value each source may give a key: absent, empty, or a value that names
\* the source it came from.
SourceValues(src, key) ==
    {None, "", (IF key = "oauth_token" THEN "xoxb-" ELSE "C-") \o src}

EnvironInputs ==
    {e \in [EnvNames -> {None, "", "xoxb-env", "C-env"}] :
        \A k \in ConfigKeys : e[EnvName(k)] \in SourceValues("env", k)}

NoEnvFile ==
    [exists |-> FALSE, readable |-> FALSE, vars |-> [n \in EnvNames |-> None]]

\* A .env that exists but cannot be opened or decoded: load_dotenv raises.
UnreadableEnvFile ==
    [exists |-> TRUE, readable |-> FALSE, vars |-> [n \in EnvNames |-> None]]

EnvFileInputs ==
    {NoEnvFile, UnreadableEnvFile} \cup
    {[exists |-> TRUE, readable |-> TRUE, vars |-> v] :
        v \in {w \in [EnvNames -> {None, "", "xoxb-dotenv", "C-dotenv"}] :
                 \A k \in ConfigKeys : w[EnvName(k)] \in SourceValues("dotenv", k)}}

NoJsonFile == [exists |-> FALSE, valid |-> FALSE, obj |-> EmptyConfig]

InvalidJsonFile == [exists |-> TRUE, valid |-> FALSE, obj |-> EmptyConfig]

JsonFileInputs ==
    {NoJsonFile, InvalidJsonFile} \cup
    {[exists |-> TRUE, valid |-> TRUE, obj |-> o] :
        o \in {w \in [ConfigKeys -> {None, "", "xoxb-json", "C-json"}] :
                 \A k \in ConfigKeys : w[k] \in SourceValues("json", k)}}

\* Outcomes of a remote call: success; SlackApiError whose response carries
\* an 'error' code; SlackApiError whose response carries none (the SDK raises
\* it with the raw HTTP response when the body is not JSON); any other
\* Exception (network failure, ...).
RemoteOutcomes == {"ok", "SlackApiError", "SlackApiErrorNoCode", "Exception"}

----------------------------------------------------------------------------
(* auth.py: configuration resolution *)

\* dotenv.load_dotenv(ENV_FILE) with its default override=False: a name of
\* the file is put into os.environ unless os.environ already holds that name
\* (whatever its value, the empty string included).
load_dotenv(env, file) ==
    [n \in EnvNames |->
        IF env[n] = None /\ file.exists /\ file.vars[n] # None
        THEN file.vars[n] ELSE env[n]]

\* load_dotenv(ENV_FILE) raises: the file exists and cannot be read.
load_dotenv_raises(file) == file.exists /\ ~file.readable

\* os.getenv of both names, kept when truthy
config_from_environ(env) ==
    [k \in ConfigKeys |->
        IF Truthy(env[EnvName(k)]) THEN env[EnvName(k)] ELSE None]

load_from_dotenv_file(env, file, hasDotenv) ==
    IF ~hasDotenv
    THEN [config |-> EmptyConfig, environ |-> env]
    ELSE IF load_dotenv_raises(file)
    THEN \* except Exception: return config, still empty
         [config |-> EmptyConfig, environ |-> env]
    ELSE LET loaded == load_dotenv(env, file)
         IN  [config |-> config_from_environ(loaded), environ |-> loaded]

\* for key in missing: if key in other: config[key] = other[key]
fill_missing(config, other) ==
    [k \in ConfigKeys |->
        IF config[k] = None /\ other[k] # None THEN other[k] ELSE config[k]]

\* json.load of CONFIG_FILE; a missing file or malformed JSON raises inside
\* the try and contributes nothing
json_config(json) ==
    IF json.exists /\ json.valid THEN json.obj ELSE EmptyConfig

load_slack_config(env, file, json, hasDotenv) ==
    LET c1 == config_from_environ(env)
        d  == IF Missing(c1) # {} \/ file.exists
              THEN load_from_dotenv_file(env, file, hasDotenv)
              ELSE [config |-> EmptyConfig, environ |-> env]
        c2 == fill_missing(c1, d.config)
        c3 == IF Missing(c2) # {} \/ json.exists
              THEN fill_missing(c2, json_config(json))
              ELSE c2
    IN  [config |-> c3, environ |-> d.environ]

----------------------------------------------------------------------------
(* py2slack.py: the standalone revision's configuration resolution *)

py2slack_load_env_vars(env, file, hasDotenv) ==
    IF ~hasDotenv
    THEN [config |-> EmptyConfig, environ |-> env]
    ELSE IF load_dotenv_raises(file)
    THEN \* except Exception: return config, still empty
         [config |-> EmptyConfig, environ |-> env]
    ELSE LET loaded == load_dotenv(env, file)
         IN  [config |-> config_from_environ(loaded), environ |-> loaded]

\* if len(config) < 2:
json_needed(config) == Cardinality(ConfigKeys \ Missing(config)) < 2

py2slack_load_slack_config(env, file, json, hasDotenv) ==
    LET d  == IF file.exists
              THEN py2slack_load_env_vars(env, file, hasDotenv)
              ELSE [config |-> EmptyConfig, environ |-> env]
        c1 == d.config
        c2 == IF json_needed(c1)
              THEN fill_missing(c1, json_config(json))
              ELSE c1
    IN  [config |-> c2, environ |-> d.environ]

----------------------------------------------------------------------------
(* Client factory, both revisions *)

NoClient == [handle |-> FALSE, token |-> None]

\* config.get(key)
config_get(config, key) == config[key]

token_missing_only_none(token) == token = None

\* if not slack_token:
token_missing(token) == ~Truthy(token)

\* auth.py: initialize_slack_client.  Every failure of WebClient(...) or
\* auth_test() is caught by `except Exception`.
initialize_slack_client(sdk, env, file, json, hasDotenv, outcome) ==
    IF ~sdk
    THEN [client |-> NoClient, default_channel |-> None, environ |-> env,
          consulted |-> FALSE, tested |-> <<>>, config |-> EmptyConfig]
    ELSE LET r     == load_slack_config(env, file, json, hasDotenv)
             token == config_get(r.config, "oauth_token")
             chan  == config_get(r.config, "default_channel")
         IN  IF token_missing(token)
             THEN [client |-> NoClient, default_channel |-> None,
                   environ |-> r.environ, consulted |-> TRUE, tested |-> <<>>,
                   config |-> r.config]
             ELSE IF outcome = "ok"
             THEN [client |-> [handle |-> TRUE, token |-> token],
                   default_channel |-> chan,
                   environ |-> r.environ, consulted |-> TRUE,
                   tested |-> <<token>>, config |-> r.config]
             ELSE [client |-> NoClient, default_channel |-> None,
                   environ |-> r.environ, consulted |-> TRUE,
                   tested |-> <<token>>, config |-> r.config]

\* py2slack.py: initialize_slack_client.  The inner handler catches
\* SlackApiError and reads e.response['error']; a KeyError raised there, and
\* every other exception, is caught by the outer `except Exception`.
py2slack_initialize_slack_client(sdk, env, file, json, hasDotenv, outcome) ==
    IF ~sdk
    THEN [client |-> NoClient, default_channel |-> None, environ |-> env,
          consulted |-> FALSE, tested |-> <<>>, config |-> EmptyConfig]
    ELSE LET r     == py2slack_load_slack_config(env, file, json, hasDotenv)
             token == config_get(r.config, "oauth_token")
             chan  == config_get(r.config, "default_channel")
         IN  IF token_missing(token)
             THEN [client |-> NoClient, default_channel |-> None,
                   environ |-> r.environ, consulted |-> TRUE, tested |-> <<>>,
                   config |-> r.config]
             ELSE IF outcome = "ok"
             THEN [client |-> [handle |-> TRUE, token |-> token],
                   default_channel |-> chan,
                   environ |-> r.environ, consulted |-> TRUE,
                   tested |-> <<token>>, config |-> r.config]
             ELSE [client |-> NoClient, default_channel |-> None,
                   environ |-> r.environ, consulted |-> TRUE,
                   tested |-> <<token>>, config |-> r.config]

----------------------------------------------------------------------------
(* notify.py: format_duration, on hundredths of a second *)

SecondsPerDay == 86400

SecondsPerHour == 3600

SecondsPerMinute == 60

\* the two decimals of f"{seconds:.2f}"
Hundredths == 100

\* 's' if n != 1 else ''
plural(n) == IF n # 1 THEN "s" ELSE ""

\* f"{seconds:.2f}" of a number of hundredths
two_decimals(cs) ==
    ToString(cs \div Hundredths) \o "." \o
    ToString((cs % Hundredths) \div 10) \o ToString(cs % 10)

RECURSIVE comma_join(_)
\* ', '.join(parts)
comma_join(parts) ==
    IF parts = <<>> THEN ""
    ELSE IF Len(parts) = 1 THEN parts[1]
    ELSE parts[1] \o ", " \o comma_join(Tail(parts))

seconds_shown_if_positive(seconds, parts) == seconds > 0

\* if seconds > 0 or not parts:
seconds_shown(seconds, parts) == seconds > 0 \/ parts = <<>>

\* The body of format_duration up to `parts`: the four components and the
\* list of rendered parts.
duration_parts(e) ==
    LET days    == e \div (SecondsPerDay * Hundredths)
        r1      == e % (SecondsPerDay * Hundredths)
        hours   == r1 \div (SecondsPerHour * Hundredths)
        r2      == r1 % (SecondsPerHour * Hundredths)
        minutes == r2 \div (SecondsPerMinute * Hundredths)
        seconds == r2 % (SecondsPerMinute * Hundredths)
        pd == IF days > 0
              THEN <<ToString(days) \o " day" \o plural(days)>> ELSE <<>>
        ph == IF hours > 0
              THEN <<ToString(hours) \o " hour" \o plural(hours)>> ELSE <<>>
        pm == IF minutes > 0
              THEN <<ToString(minutes) \o " minute" \o plural(minutes)>> ELSE <<>>
        ps == IF seconds_shown(seconds, pd \o ph \o pm)
              THEN <<two_decimals(seconds) \o " second" \o
                     (IF seconds # Hundredths THEN "s" ELSE "")>>
              ELSE <<>>
    IN  [days |-> days, hours |-> hours, minutes |-> minutes,
         seconds |-> seconds, parts |-> pd \o ph \o pm \o ps]

format_duration(e) == comma_join(duration_parts(e).parts)

----------------------------------------------------------------------------
(* notify.py: send_slack *)

NoError == [etype |-> None, msg |-> None]

\* e.response['error'] on a response that has no such key
KeyErrorError == [etype |-> "KeyError", msg |-> "'error'"]

DisabledMsg == "Slack functionality is disabled due to missing configuration."

NoChannelMsg ==
    "Error: No channel specified. Please provide a channel or set a default channel in the configuration."

SentMsg == "Message sent successfully"

\* os.path.basename on the paths used here
basename(path) == IF path = "out/plot.png" THEN "plot.png" ELSE path

\* os.getcwd()
Cwd == "/work"

\* channel or DEFAULT_CHANNEL
channel_or_default(channel, dflt) == IF Truthy(channel) THEN channel ELSE dflt

\* The remote call and the three ways the try block of send_slack ends.
remote_call(call, outcome) ==
    IF outcome = "ok"
    THEN [remote |-> <<call>>, diag |-> <<SentMsg>>, raised |-> NoError]
    ELSE IF outcome = "SlackApiError"
    THEN [remote |-> <<call>>,
          diag |-> <<"Error sending message: channel_not_found">>,
          raised |-> NoError]
    ELSE IF outcome = "SlackApiErrorNoCode"
    THEN [remote |-> <<call>>, diag |-> <<>>, raised |-> KeyErrorError]
    ELSE [remote |-> <<call>>,
          diag |-> <<"Unexpected error while sending message: connection failed">>,
          raised |-> NoError]

client_is_none_never(client) == FALSE

\* if CLIENT is None:
client_is_none(client) == ~client.handle

\* access: what os.path.exists / open find at `file`
\*   ("missing", "unreadable", "readable"); outcome: what the remote does.
send_slack(client, dflt, text, file, channel, access, outcome) ==
    IF client_is_none(client)
    THEN [remote |-> <<>>, diag |-> <<DisabledMsg>>, raised |-> NoError]
    ELSE IF channel = None /\ dflt = None
    THEN [remote |-> <<>>, diag |-> <<NoChannelMsg>>, raised |-> NoError]
    ELSE LET used == channel_or_default(channel, dflt)
         IN  IF file = None
             THEN remote_call([op |-> "chat_postMessage", channel |-> used,
                               text |-> text, filename |-> None,
                               title |-> None], outcome)
             ELSE IF access = "missing"
             THEN [remote |-> <<>>,
                   diag |-> <<"Warning: Local file not found: " \o file,
                              "Current working directory: " \o Cwd>>,
                   raised |-> NoError]
             ELSE IF access = "unreadable"
             THEN [remote |-> <<>>,
                   diag |-> <<"Unexpected error while sending message: permission denied">>,
                   raised |-> NoError]
             ELSE remote_call([op |-> "files_upload_v2", channel |-> used,
                               text |-> text, filename |-> basename(file),
                               title |-> basename(file)], outcome)

SdkMissingMsg ==
    "Slack functionality is disabled due to missing slack_sdk library."

\* py2slack.py's own send_slack: the library check first, then the same steps
\* on the standalone module's client and DEFAULT_CHANNEL.
py2slack_send_slack(sdk, client, dflt, text, file, channel, access, outcome) ==
    IF ~sdk
    THEN [remote |-> <<>>, diag |-> <<SdkMissingMsg>>, raised |-> NoError]
    ELSE send_slack(client, dflt, text, file, channel, access, outcome)

----------------------------------------------------------------------------
(* notify.py: slack_notify *)

ScriptName == "main.py"

FuncName == "job"

success_text(dur) ==
    "[" \o ScriptName \o "] Function '" \o FuncName \o
    "' completed successfully in " \o dur \o "!"

\* traceback.format_exc()
format_exc(err) ==
    "Traceback (most recent call last): " \o err.etype \o ": " \o err.msg

error_text(dur, err) ==
    "[" \o ScriptName \o "] Function '" \o FuncName \o
    "' encountered an error after " \o dur \o ":\n" \o err.msg \o
    "\n\nTraceback:\n" \o format_exc(err)

SuccessNote(dur) ==
    [kind |-> "success", duration |-> dur, error |-> None,
     text |-> success_text(dur)]

FailureNote(dur, err) ==
    [kind |-> "failure", duration |-> dur, error |-> err.msg,
     text |-> error_text(dur, err)]

\* The except branch of wrapper: report `err`, then `raise`.  An exception
\* escaping send_slack replaces the one being re-raised.
wrapper_except(client, dflt, err, el, outcome, before) ==
    LET note == FailureNote(format_duration(el), err)
        s    == send_slack(client, dflt, note.text, None, None, "missing", outcome)
    IN  [returned |-> None,
         raised   |-> IF s.raised = NoError THEN err ELSE s.raised,
         sent     |-> before.sent \o <<note>>,
         remote   |-> before.remote \o s.remote,
         diag     |-> before.diag \o <<note.text>> \o s.diag]

NothingYet == [sent |-> <<>>, remote |-> <<>>, diag |-> <<>>]

\* wrapper(*args, **kwargs) for one unit of work.  el is the clock reading
\* taken when the work ends (line 96, or line 101 when it raised); el2 is
\* the later reading of line 101 when the success notification itself raised
\* inside the try block.  o1 and o2 are the outcomes of the remote calls of
\* the first and of a second send_slack.
wrapper(client, dflt, work, el, el2, o1, o2) ==
    IF work.kind = "return"
    THEN LET note == SuccessNote(format_duration(el))
             s    == send_slack(client, dflt, note.text, None, None, "missing", o1)
             sofar == [sent |-> <<note>>, remote |-> s.remote, diag |-> s.diag]
         IN  IF s.raised = NoError
             THEN [returned |-> work.value, raised |-> NoError,
                   sent |-> sofar.sent, remote |-> sofar.remote,
                   diag |-> sofar.diag]
             ELSE wrapper_except(client, dflt, s.raised, el2, o2, sofar)
    ELSE IF work.kind = "raise"
    THEN wrapper_except(client, dflt, work.error, el, o1, NothingYet)
    ELSE \* a BaseException that is no Exception is not caught
         [returned |-> None, raised |-> work.error,
          sent |-> <<>>, remote |-> <<>>, diag |-> <<>>]

----------------------------------------------------------------------------
(* Inputs of the calls *)

TextInputs == {"hi"}

FileInputs == {None, "out/plot.png"}

ChannelInputs == {None, "", "C-arg"}

\* Channels passed along with a file
FileChannelInputs == {"C-arg"}

FileAccess == {"missing", "unreadable", "readable"}

\* Units of work: one that returns 42, one that raises ValueError("x"), one
\* that is interrupted (KeyboardInterrupt is a BaseException, no Exception).
Works ==
    {[kind |-> "return", value |-> "42", error |-> NoError],
     [kind |-> "raise", value |-> None,
      error |-> [etype |-> "ValueError", msg |-> "x"]],
     [kind |-> "interrupt", value |-> None,
      error |-> [etype |-> "KeyboardInterrupt", msg |-> ""]]}

\* time.time() - start_time, in hundredths of a second
WorkElapsed == {6500, 9006150}

\* Bounds of the durations format_duration is run on
MaxDays == 2

HourInputs == {0, 1, 2, 23}

MinuteInputs == {0, 1, 2, 59}

CentisecondInputs == {0, 1, 99, 100, 101, 150, 500, 5999}

ElapsedInputs ==
    {d * SecondsPerDay * Hundredths + h * SecondsPerHour * Hundredths
       + m * SecondsPerMinute * Hundredths + cs :
        d \in 0..MaxDays, h \in HourInputs, m \in MinuteInputs,
        cs \in CentisecondInputs}

NoCall ==
    [op |-> "none", args |-> <<>>, returned |-> None, raised |-> NoError,
     sent |-> <<>>, remote |-> <<>>, diag |-> <<>>]

NotRun ==
    [done |-> FALSE, resolved |-> FALSE, config |-> EmptyConfig,
     client |-> NoClient, default_channel |-> None]

NotFormatted ==
    [done |-> FALSE, days |-> 0, hours |-> 0, minutes |-> 0, seconds |-> 0,
     parts |-> <<>>, text |-> ""]

----------------------------------------------------------------------------
(* The process: module loading, then calls *)

WorldInit ==
    /\ sdkAvailable \in BOOLEAN
    /\ dotenvAvailable \in BOOLEAN
    /\ startEnviron \in EnvironInputs
    /\ envFile \in EnvFileInputs
    /\ jsonFile \in JsonFileInputs
    /\ liveness \in RemoteOutcomes

ProcInit ==
    /\ environ = startEnviron
    /\ pc = "start"
    /\ CLIENT = NoClient
    /\ DEFAULT_CHANNEL = None
    /\ consulted = FALSE
    /\ authTests = <<>>
    /\ last = NoCall

CfgIdle == resAuth = NotRun /\ resStandalone = NotRun

FmtIdle == elapsed = 0 /\ formatted = NotFormatted

\* The process is followed on the configurations in which the environment
\* holds nothing, the token, or the token and the channel, and a file that
\* exists can be read and holds both keys: with values in .env, with values
\* or empty strings in JSON.  SpecConfig loads both revisions on every configuration.
ProcessEnvirons ==
    {e \in EnvironInputs :
        /\ \A n \in EnvNames : e[n] # ""
        /\ e["SLACK_DEFAULT_CHANNEL"] # None => e["SLACK_OAUTH_TOKEN"] # None}

ProcessEnvFiles ==
    {f \in EnvFileInputs :
        f.exists => (f.readable /\ \A n \in EnvNames : Truthy(f.vars[n]))}

ProcessJsonFiles ==
    {j \in JsonFileInputs : j.valid => \A k \in ConfigKeys : j.obj[k] # None}

Init ==
    /\ WorldInit
    /\ startEnviron \in ProcessEnvirons
    /\ envFile \in ProcessEnvFiles
    /\ jsonFile \in ProcessJsonFiles
    /\ ProcInit /\ CfgIdle /\ FmtIdle

\* What a run of either factory does to the process besides returning:
\* load_dotenv writes into os.environ, load_slack_config has run, auth_test
\* has been called.
FactoryEffects(r) ==
    /\ environ' = r.environ
    /\ consulted' = (consulted \/ r.consulted)
    /\ authTests' = authTests \o r.tested

\* auth.py line 135: CLIENT, DEFAULT_CHANNEL = initialize_slack_client()
RunAuthModule ==
    LET r == initialize_slack_client(sdkAvailable, environ, envFile, jsonFile,
                                     dotenvAvailable, liveness)
    IN  /\ CLIENT' = r.client
        /\ DEFAULT_CHANNEL' = r.default_channel
        /\ FactoryEffects(r)
        /\ resAuth' = [done |-> TRUE, resolved |-> r.consulted,
                       config |-> r.config, client |-> r.client,
                       default_channel |-> r.default_channel]

\* auth.py has been imported: its functions can be called by the host.
AuthLoaded == resAuth.done

\* The host imports py2slack.auth on its own, at the start or after an import
\* of py2slack.notify that failed at line 9, before auth.py was reached.
LoadAuth ==
    /\ ~AuthLoaded
    /\ pc \in {"start", "import_error"}
    /\ RunAuthModule
    /\ pc' = (IF pc = "start" THEN "auth_loaded" ELSE pc)
    /\ UNCHANGED <<worldVars, last, resStandalone, fmtVars>>

\* The host imports py2slack.notify: line 9 imports slack_sdk.errors with no
\* guard (ImportError when the library is missing, on every attempt), line 10
\* imports .auth, which runs auth.py unless it is loaded already.
LoadNotify ==
    /\ pc \in {"start", "auth_loaded", "import_error"}
    /\ IF ~sdkAvailable
       THEN /\ pc' = "import_error"
            /\ UNCHANGED <<environ, CLIENT, DEFAULT_CHANNEL, consulted,
                           authTests, resAuth>>
       ELSE /\ pc' = "ready"
            /\ IF ~AuthLoaded
               THEN RunAuthModule
               ELSE UNCHANGED <<environ, CLIENT, DEFAULT_CHANNEL, consulted,
                                authTests, resAuth>>
    /\ UNCHANGED <<worldVars, last, resStandalone, fmtVars>>

\* A call of send_slack(text, file, channel).  The file system is consulted
\* only when a file is given; the empty channel is passed without a file.
SendSlack ==
    /\ pc = "ready"
    /\ \E text \in TextInputs, file \in FileInputs :
       \E channel \in (IF file = None THEN ChannelInputs
                       ELSE FileChannelInputs) :
       \E access \in (IF file = None THEN {"missing"} ELSE FileAccess) :
       \E outcome \in (IF file # None /\ access # "readable"
                       THEN {"ok"} ELSE RemoteOutcomes) :
          LET r == send_slack(CLIENT, DEFAULT_CHANNEL, text, file, channel,
                              access, outcome)
          IN  last' = [op |-> "send_slack",
                       args |-> <<text, file, channel>>,
                       returned |-> None, raised |-> r.raised,
                       sent |-> <<>>, remote |-> r.remote, diag |-> r.diag]
    /\ UNCHANGED <<worldVars, environ, pc, CLIENT, DEFAULT_CHANNEL, consulted,
                   authTests, cfgVars, fmtVars>>

\* A call of a function decorated with @slack_notify.  o1 is the outcome of
\* the first notification's remote call; a second notification is sent, after
\* a second reading el2 of the clock, only when the first send_slack raised
\* inside the try block.
CallWrapped ==
    /\ pc = "ready"
    /\ \E work \in Works :
       \E el \in (IF work.kind = "interrupt" THEN {0} ELSE WorkElapsed) :
       \E o1 \in (IF work.kind = "interrupt" THEN {"ok"} ELSE RemoteOutcomes) :
       \E el2 \in (IF work.kind = "return" /\ o1 = "SlackApiErrorNoCode"
                   THEN {e \in WorkElapsed : e >= el} ELSE {el}) :
       \E o2 \in (IF work.kind = "return" /\ o1 = "SlackApiErrorNoCode"
                  THEN RemoteOutcomes ELSE {"ok"}) :
          LET r == wrapper(CLIENT, DEFAULT_CHANNEL, work, el, el2, o1, o2)
          IN  last' = [op |-> "wrapped", args |-> <<work.kind>>,
                       returned |-> r.returned, raised |-> r.raised,
                       sent |-> r.sent, remote |-> r.remote, diag |-> r.diag]
    /\ UNCHANGED <<worldVars, environ, pc, CLIENT, DEFAULT_CHANNEL, consulted,
                   authTests, cfgVars, fmtVars>>

\* Bound on the number of auth_test calls followed
MaxAuthTests == 2

\* The host calls auth.initialize_slack_client() again.  The result is
\* returned, not stored: CLIENT and DEFAULT_CHANNEL keep their values.
CallInitializeSlackClient ==
    /\ AuthLoaded
    /\ Len(authTests) < MaxAuthTests
    /\ \E outcome \in RemoteOutcomes :
          LET r == initialize_slack_client(sdkAvailable, environ, envFile,
                       jsonFile, dotenvAvailable, outcome)
          IN  /\ FactoryEffects(r)
              /\ last' = [op |-> "initialize_slack_client",
                          args |-> IF r.tested = <<>> THEN <<>> ELSE <<outcome>>,
                          returned |-> <<r.client, r.default_channel>>,
                          raised |-> NoError,
                          sent |-> <<>>, remote |-> <<>>, diag |-> <<>>]
    /\ UNCHANGED <<worldVars, pc, CLIENT, DEFAULT_CHANNEL, cfgVars, fmtVars>>

\* The host calls auth.load_slack_config().
CallLoadSlackConfig ==
    /\ AuthLoaded
    /\ LET r == load_slack_config(environ, envFile, jsonFile, dotenvAvailable)
       IN  /\ environ' = r.environ
           /\ consulted' = TRUE
           /\ last' = [op |-> "load_slack_config", args |-> <<>>,
                       returned |-> r.config, raised |-> NoError,
                       sent |-> <<>>, remote |-> <<>>, diag |-> <<>>]
    /\ UNCHANGED <<worldVars, pc, CLIENT, DEFAULT_CHANNEL, authTests, cfgVars,
                   fmtVars>>

\* The host calls auth.load_from_dotenv_file().
CallLoadFromDotenvFile ==
    /\ AuthLoaded
    /\ LET r == load_from_dotenv_file(environ, envFile, dotenvAvailable)
       IN  /\ environ' = r.environ
           /\ last' = [op |-> "load_from_dotenv_file", args |-> <<>>,
                       returned |-> r.config, raised |-> NoError,
                       sent |-> <<>>, remote |-> <<>>, diag |-> <<>>]
    /\ UNCHANGED <<worldVars, pc, CLIENT, DEFAULT_CHANNEL, consulted,
                   authTests, cfgVars, fmtVars>>

\* py2slack.py line 168: client, DEFAULT_CHANNEL = initialize_slack_client()
\* (the standalone module's own globals, kept in resStandalone)
LoadStandalone ==
    /\ ~resStandalone.done
    /\ LET r == py2slack_initialize_slack_client(sdkAvailable, environ,
                    envFile, jsonFile, dotenvAvailable, liveness)
       IN  /\ FactoryEffects(r)
           /\ resStandalone' = [done |-> TRUE, resolved |-> r.consulted,
                                config |-> r.config, client |-> r.client,
                                default_channel |-> r.default_channel]
    /\ UNCHANGED <<worldVars, pc, CLIENT, DEFAULT_CHANNEL, last, resAuth,
                   fmtVars>>

\* py2slack.py has been imported: its functions can be called by the host.
StandaloneLoaded == resStandalone.done

\* The host calls py2slack.initialize_slack_client() again; the result is
\* returned, the module's client and DEFAULT_CHANNEL keep their values.
CallStandaloneInitializeSlackClient ==
    /\ StandaloneLoaded
    /\ Len(authTests) < MaxAuthTests
    /\ \E outcome \in RemoteOutcomes :
          LET r == py2slack_initialize_slack_client(sdkAvailable, environ,
                       envFile, jsonFile, dotenvAvailable, outcome)
          IN  /\ FactoryEffects(r)
              /\ last' = [op |-> "py2slack.initialize_slack_client",
                          args |-> IF r.tested = <<>> THEN <<>> ELSE <<outcome>>,
                          returned |-> <<r.client, r.default_channel>>,
                          raised |-> NoError,
                          sent |-> <<>>, remote |-> <<>>, diag |-> <<>>]
    /\ UNCHANGED <<worldVars, pc, CLIENT, DEFAULT_CHANNEL, cfgVars, fmtVars>>

\* The host calls py2slack.load_slack_config().
CallStandaloneLoadSlackConfig ==
    /\ StandaloneLoaded
    /\ LET r == py2slack_load_slack_config(environ, envFile, jsonFile,
                                           dotenvAvailable)
       IN  /\ environ' = r.environ
           /\ consulted' = TRUE
           /\ last' = [op |-> "py2slack.load_slack_config", args |-> <<>>,
                       returned |-> r.config, raised |-> NoError,
                       sent |-> <<>>, remote |-> <<>>, diag |-> <<>>]
    /\ UNCHANGED <<worldVars, pc, CLIENT, DEFAULT_CHANNEL, authTests, cfgVars,
                   fmtVars>>

\* The host calls py2slack.load_env_vars().
CallStandaloneLoadEnvVars ==
    /\ StandaloneLoaded
    /\ LET r == py2slack_load_env_vars(environ, envFile, dotenvAvailable)
       IN  /\ environ' = r.environ
           /\ last' = [op |-> "py2slack.load_env_vars", args |-> <<>>,
                       returned |-> r.config, raised |-> NoError,
                       sent |-> <<>>, remote |-> <<>>, diag |-> <<>>]
    /\ UNCHANGED <<worldVars, pc, CLIENT, DEFAULT_CHANNEL, consulted,
                   authTests, cfgVars, fmtVars>>

\* A call of py2slack.send_slack(text, file, channel), on the client and
\* default channel bound by py2slack.py.
StandaloneSendSlack ==
    /\ StandaloneLoaded
    /\ \E text \in TextInputs, file \in FileInputs :
       \E channel \in (IF file = None THEN ChannelInputs
                       ELSE FileChannelInputs) :
       \E access \in (IF file = None THEN {"missing"} ELSE FileAccess) :
       \E outcome \in (IF file # None /\ access # "readable"
                       THEN {"ok"} ELSE RemoteOutcomes) :
          LET r == py2slack_send_slack(sdkAvailable, resStandalone.client,
                       resStandalone.default_channel, text, file, channel,
                       access, outcome)
          IN  last' = [op |-> "py2slack.send_slack",
                       args |-> <<text, file, channel>>,
                       returned |-> None, raised |-> r.raised,
                       sent |-> <<>>, remote |-> r.remote, diag |-> r.diag]
    /\ UNCHANGED <<worldVars, environ, pc, CLIENT, DEFAULT_CHANNEL, consulted,
                   authTests, cfgVars, fmtVars>>

Next ==
    \/ LoadAuth \/ LoadNotify \/ SendSlack \/ CallWrapped
    \/ CallInitializeSlackClient \/ CallLoadSlackConfig
    \/ CallLoadFromDotenvFile
    \/ LoadStandalone \/ CallStandaloneInitializeSlackClient
    \/ CallStandaloneLoadSlackConfig \/ CallStandaloneLoadEnvVars
    \/ StandaloneSendSlack

Spec == Init /\ [][Next]_vars

----------------------------------------------------------------------------
(* The import of both revisions into one process, in either order, on every *)
(* configuration; the calls that can follow are those of Spec                *)

InitConfig == WorldInit /\ ProcInit /\ CfgIdle /\ FmtIdle

NextConfig == LoadAuth \/ LoadStandalone

SpecConfig == InitConfig /\ [][NextConfig]_vars

----------------------------------------------------------------------------
(* format_duration on its own *)

InitDuration ==
    /\ sdkAvailable = TRUE
    /\ dotenvAvailable = TRUE
    /\ startEnviron = [n \in EnvNames |-> None]
    /\ envFile = NoEnvFile
    /\ jsonFile = NoJsonFile
    /\ liveness = "ok"
    /\ ProcInit
    /\ CfgIdle
    /\ elapsed \in ElapsedInputs
    /\ formatted = NotFormatted

FormatDuration ==
    /\ ~formatted.done
    /\ LET p == duration_parts(elapsed)
       IN  formatted' =
             [done |-> TRUE, days |-> p.days, hours |-> p.hours,
              minutes |-> p.minutes, seconds |-> p.seconds,
              parts |-> p.parts, text |-> format_duration(elapsed)]
    /\ UNCHANGED <<worldVars, procVars, cfgVars, elapsed>>

NextDuration == FormatDuration

SpecDuration == InitDuration /\ [][NextDuration]_vars

----------------------------------------------------------------------------
(* Properties: configuration resolution (checked under SpecConfig) *)

\* A source defines a key when it holds a non-empty value for it; the .env
\* file counts when it exists and its parser is available, the JSON file when
\* it exists and parses.
EnvDefines(k) == Truthy(startEnviron[EnvName(k)])

DotenvDefines(k) ==
    dotenvAvailable /\ envFile.exists /\ Truthy(envFile.vars[EnvName(k)])

JsonDefines(k) == jsonFile.exists /\ jsonFile.valid /\ Truthy(jsonFile.obj[k])

HighestPrecedence(k) ==
    IF EnvDefines(k) THEN startEnviron[EnvName(k)]
    ELSE IF DotenvDefines(k) THEN envFile.vars[EnvName(k)]
    ELSE jsonFile.obj[k]

\* C1: for every combination of present, empty or absent values of the two
\* keys in the environment, the .env file and the JSON file, load_slack_config
\* returns for each key the value of the highest-precedence source that
\* defines it (environment over .env over JSON); a key set by a higher source
\* is never replaced by a lower one.
C1_PrecedenceRespected ==
    (resAuth.done /\ resAuth.resolved) =>
        \A k \in ConfigKeys :
            (EnvDefines(k) \/ DotenvDefines(k) \/ JsonDefines(k))
                => resAuth.config[k] = HighestPrecedence(k)

SameResolution ==
    /\ resAuth.config = resStandalone.config
    /\ resAuth.client = resStandalone.client
    /\ resAuth.default_channel = resStandalone.default_channel

\* C10 as stated: on every combination of environment, .env and JSON inputs
\* both revisions return the same configuration and end in the same client
\* state with the same default channel.
C10_RevisionsAlwaysAgree ==
    (resAuth.done /\ resStandalone.done) => SameResolution

----------------------------------------------------------------------------
(* Properties: the process (checked under Spec) *)

\* C5: loading never fails: whether or not the client library is available
\* and whatever the liveness check answers, no error reaches the host; with
\* the library unavailable the client is Disabled and no configuration
\* source was consulted.
C5_LoadNeverFails ==
    /\ pc # "import_error"
    /\ (AuthLoaded /\ ~sdkAvailable) => (~CLIENT.handle /\ ~resAuth.resolved)

NoCredentialAnywhere ==
    /\ ~Truthy(startEnviron["SLACK_OAUTH_TOKEN"])
    /\ ~Truthy(envFile.vars["SLACK_OAUTH_TOKEN"])
    /\ ~Truthy(jsonFile.obj["oauth_token"])

\* C7: the liveness check is attempted only with a non-empty resolved token;
\* the client is Ready only when that check succeeded, and then holds a
\* non-empty credential; with no credential in any source the client is
\* Disabled and no liveness check was attempted.  This holds of the client
\* bound at load time and of the one a later call of the factory returns.
C7_LivenessOnlyWithToken ==
    /\ \A i \in DOMAIN authTests : Truthy(authTests[i])
    /\ CLIENT.handle =>
          /\ Truthy(CLIENT.token)
          /\ \E i \in DOMAIN authTests : authTests[i] = CLIENT.token
          /\ liveness = "ok"
    /\ last.op = "initialize_slack_client" =>
          LET returnedClient == last.returned[1]
          IN  returnedClient.handle =>
                /\ Truthy(returnedClient.token)
                /\ \E i \in DOMAIN authTests :
                      authTests[i] = returnedClient.token
                /\ last.args = <<"ok">>
    /\ (AuthLoaded /\ NoCredentialAnywhere) =>
          /\ ~CLIENT.handle /\ authTests = <<>>
          /\ last.op = "initialize_slack_client" => ~last.returned[1].handle

\* A Ready client without default channel, after one successful liveness check.
C7_Witness ==
    /\ pc = "ready" /\ CLIENT.handle /\ DEFAULT_CHANNEL = None
    /\ authTests = <<CLIENT.token>>

\* C4: send_slack never raises: every call emits a diagnostic and returns.
C4_SendNeverRaises ==
    last.op = "send_slack" => (last.raised = NoError /\ last.diag # <<>>)

\* C6: with a Ready client a remote operation gets a non-empty channel, the
\* explicit argument if one is given and the configured default otherwise;
\* with neither, send_slack invokes nothing remote, reports "no channel" and
\* returns.
C6_ChannelSelection ==
    (pc = "ready" /\ CLIENT.handle /\ last.op = "send_slack") =>
        LET channel == last.args[3]
        IN  /\ \A i \in DOMAIN last.remote :
                 /\ Truthy(last.remote[i].channel)
                 /\ last.remote[i].channel =
                       (IF Truthy(channel) THEN channel ELSE DEFAULT_CHANNEL)
            /\ (channel = None /\ DEFAULT_CHANNEL = None) =>
                 /\ last.remote = <<>>
                 /\ last.diag = <<NoChannelMsg>>
                 /\ last.raised = NoError

\* C2: a wrapped call whose work raises an error raises that same error, after
\* exactly one failure notification with the duration and the error message
\* was passed to send_slack, and no success notification.
C2_ErrorReportedAndReraised ==
    (last.op = "wrapped" /\ last.args = <<"raise">>) =>
        /\ last.raised = [etype |-> "ValueError", msg |-> "x"]
        /\ Len(last.sent) = 1
        /\ last.sent[1].kind = "failure"
        /\ last.sent[1].error = "x"
        /\ last.sent[1].duration \in {format_duration(e) : e \in WorkElapsed}

\* C3: a wrapped call whose work returns v returns v, and exactly one
\* notification, a success notification, was sent, whatever the client state
\* and the outcome of the send.
C3_ResultReturnedOneSuccess ==
    (last.op = "wrapped" /\ last.args = <<"return">>) =>
        /\ last.returned = "42"
        /\ last.raised = NoError
        /\ Len(last.sent) = 1
        /\ last.sent[1].kind = "success"

DisabledReports(diag) == Cardinality({i \in DOMAIN diag : diag[i] = DisabledMsg})

\* C9: once the module is loaded no step changes CLIENT or DEFAULT_CHANNEL,
\* and no send_slack call or wrapped invocation re-resolves the configuration
\* or repeats the liveness check; with a Disabled client no send invokes a
\* remote operation, and every send reports the disabled diagnostic and
\* returns.
C9_ClientStateFixed ==
    /\ [][AuthLoaded =>
            /\ CLIENT' = CLIENT
            /\ DEFAULT_CHANNEL' = DEFAULT_CHANNEL]_vars
    /\ [][(last' # last /\ last'.op \in {"send_slack", "wrapped"}) =>
            /\ consulted' = consulted
            /\ authTests' = authTests
            /\ environ' = environ]_vars
    /\ []((pc = "ready" /\ ~CLIENT.handle) =>
            /\ last.op \in {"send_slack", "wrapped"} => last.remote = <<>>
            /\ last.op = "send_slack" =>
                  (last.diag = <<DisabledMsg>> /\ last.raised = NoError)
            /\ last.op = "wrapped" =>
                  DisabledReports(last.diag) = Len(last.sent))

\* A send with an explicit channel on a Disabled client.
C9_Witness ==
    /\ pc = "ready" /\ ~CLIENT.handle /\ sdkAvailable
    /\ last.op = "send_slack" /\ last.args[3] = "C-arg"
    /\ last.diag = <<DisabledMsg>>

----------------------------------------------------------------------------
(* Properties: format_duration (checked under SpecDuration) *)

\* The components in display order, each with its value, the value that
\* takes the singular, its rendering and its unit.
Components ==
    <<[v |-> formatted.days, one |-> 1, unit |-> "day",
       shown |-> ToString(formatted.days)],
      [v |-> formatted.hours, one |-> 1, unit |-> "hour",
       shown |-> ToString(formatted.hours)],
      [v |-> formatted.minutes, one |-> 1, unit |-> "minute",
       shown |-> ToString(formatted.minutes)],
      [v |-> formatted.seconds, one |-> Hundredths, unit |-> "second",
       shown |-> two_decimals(formatted.seconds)]>>

IsEmitted(c) ==
    \/ c.v > 0
    \/ /\ c.unit = "second"
       /\ formatted.days = 0 /\ formatted.hours = 0 /\ formatted.minutes = 0

Rendered(c) == c.shown \o " " \o c.unit \o (IF c.v = c.one THEN "" ELSE "s")

\* C8: format_duration decomposes the elapsed time into days, hours (<24),
\* minutes (<60) and seconds (<60) that recompose to it; emits exactly the
\* components > 0 in the order days, hours, minutes, seconds, joined by ", ";
\* always emits seconds when the others are all zero; uses the singular
\* exactly for a value of 1; and renders 0 as "0.00 seconds", 65 as
\* "1 minute, 5.00 seconds", 90061.5 as "1 day, 1 hour, 1 minute, 1.50 seconds".
C8_FormatDuration ==
    formatted.done =>
        LET emitted == SelectSeq(Components, IsEmitted)
        IN  /\ formatted.days >= 0
            /\ formatted.hours \in 0..23
            /\ formatted.minutes \in 0..59
            /\ formatted.seconds \in 0..(60 * Hundredths - 1)
            /\ elapsed = ((formatted.days * 24 + formatted.hours) * 60
                             + formatted.minutes) * 60 * Hundredths
                         + formatted.seconds
            /\ formatted.parts =
                  [i \in 1..Len(emitted) |-> Rendered(emitted[i])]
            /\ Len(formatted.parts) = 1 => formatted.text = formatted.parts[1]
            /\ Len(formatted.parts) = 2 =>
                  formatted.text =
                      formatted.parts[1] \o ", " \o formatted.parts[2]
            /\ elapsed = 0 => formatted.text = "0.00 seconds"
            /\ elapsed = 6500 => formatted.text = "1 minute, 5.00 seconds"
            /\ elapsed = 9006150 =>
                  formatted.text = "1 day, 1 hour, 1 minute, 1.50 seconds"
            /\ elapsed = 17286000 =>
                  formatted.text = "2 days, 1 minute"

\* 90061.5 seconds has been formatted.
C8_Witness ==
    /\ formatted.done /\ elapsed = 9006150
    /\ formatted.text = "1 day, 1 hour, 1 minute, 1.50 seconds"

====
